---- MODULE Spec2Model ----
(***************************************************************************)
(* Integer-frequency MapReduce scripts of project1:                        *)
(*   mapreduce_counter.py   run_mapper / run_reducer / run_report          *)
(*   map_reduce_pipeline.py mapper / reducer / report                      *)
(*   count_integers.py      mapper_task / reducer_task                     *)
(* Text is a sequence of one-character strings; an input file is a         *)
(* sequence of lines (newline removed); an artifact is the text the task   *)
(* wrote. One action is one task invocation (one process run to its end).  *)
(***************************************************************************)
EXTENDS Integers, Sequences, FiniteSets, TLC

VARIABLES
  variant,    \* which script is under test
  files,      \* sorted list of input files, each a sequence of lines
  numTasks,   \* --num-tasks of the current run (map_reduce_pipeline.py)
  mapArt,     \* intermediate directory: mapper artifacts, index -> text
  redArt,     \* intermediate directory: reducer artifacts, index -> text
  report,     \* final report: was it written, and its ranked rows
  last,       \* the last task invocation and how its process ended
  mapDone,    \* mapper tasks completed in the current run
  redDone,    \* reducer tasks completed after every mapper of the run
  assigned,   \* file positions each completed mapper of the run was given
  running     \* tasks running side by side: each process's position, the
              \* text it has yet to write, the artifacts it has opened

vars == <<variant, files, numTasks, mapArt, redArt, report, last,
          mapDone, redDone, assigned, running>>

----------------------------------------------------------------------------
(* Bounds of the model *)

MaxFiles == 2

MaxTasks == 2

\* largest task count and largest list length of the partition checks
MaxCount == 5

MaxListLen == 7

\* keys -MaxKey..MaxKey of the key ownership check
MaxKey == 8

----------------------------------------------------------------------------
(* Program constants *)

NUM_MAPPERS == 4

NUM_REDUCERS == 4

NumBuckets == 101

TopK == 6

----------------------------------------------------------------------------
(* Python text primitives *)

Digits == <<"0", "1", "2", "3", "4", "5", "6", "7", "8", "9">>

IsDigit(c) == \E d \in 1..10 : Digits[d] = c

DigitVal(c) == (CHOOSE d \in 1..10 : Digits[d] = c) - 1

IsSpace(c) == c = " "

RECURSIVE LStrip(_)
LStrip(s) ==
  IF s = <<>> THEN s
  ELSE IF IsSpace(Head(s)) THEN LStrip(Tail(s)) ELSE s

RECURSIVE RStrip(_)
RStrip(s) ==
  IF s = <<>> THEN s
  ELSE IF IsSpace(s[Len(s)]) THEN RStrip(SubSeq(s, 1, Len(s) - 1)) ELSE s

\* str.strip()
Strip(s) == RStrip(LStrip(s))

RECURSIVE SplitAcc(_, _, _)
SplitAcc(s, cur, acc) ==
  IF s = <<>> THEN (IF cur = <<>> THEN acc ELSE Append(acc, cur))
  ELSE IF IsSpace(Head(s))
       THEN SplitAcc(Tail(s), <<>>, IF cur = <<>> THEN acc ELSE Append(acc, cur))
       ELSE SplitAcc(Tail(s), Append(cur, Head(s)), acc)

\* str.split(): split on runs of whitespace, no empty tokens
Split(s) == SplitAcc(s, <<>>, <<>>)

\* the digits of a literal after its optional sign
IntBody(s) ==
  LET t == Strip(s)
  IN IF t # <<>> /\ Head(t) \in {"+", "-"} THEN Tail(t) ELSE t

\* int(s) does not raise ValueError
PyIntOk(s) ==
  LET b == IntBody(s)
  IN b # <<>> /\ \A i \in 1..Len(b) : IsDigit(b[i])

RECURSIVE DigitsValue(_)
DigitsValue(b) ==
  IF b = <<>> THEN 0
  ELSE 10 * DigitsValue(SubSeq(b, 1, Len(b) - 1)) + DigitVal(b[Len(b)])

\* int(s), for s with PyIntOk(s)
PyInt(s) ==
  LET t == Strip(s)
  IN IF Head(t) = "-" THEN 0 - DigitsValue(IntBody(s)) ELSE DigitsValue(IntBody(s))

\* str.isdigit()
IsDigitStr(s) == s # <<>> /\ \A i \in 1..Len(s) : IsDigit(s[i])

RECURSIVE StrNat(_)
StrNat(n) ==
  IF n < 10 THEN <<Digits[n + 1]>>
  ELSE Append(StrNat(n \div 10), Digits[(n % 10) + 1])

\* str(n) of an int
Str(n) == IF n < 0 THEN <<"-">> \o StrNat(0 - n) ELSE StrNat(n)

\* Python's %: for a positive divisor the result is in 0..b-1
TruncRem(a, b) == IF a >= 0 THEN a % b ELSE 0 - ((0 - a) % b)

PyMod(a, b) == a % b

----------------------------------------------------------------------------
(* dict / defaultdict(int) / Counter: pairs <<key, value>> in insertion order *)

DictHas(d, k) == \E i \in 1..Len(d) : d[i][1] = k

DictGet(d, k) ==
  IF DictHas(d, k) THEN d[CHOOSE i \in 1..Len(d) : d[i][1] = k][2] ELSE 0

\* d[k] = v
DictSet(d, k, v) ==
  IF DictHas(d, k)
  THEN [i \in 1..Len(d) |-> IF d[i][1] = k THEN <<k, v>> ELSE d[i]]
  ELSE Append(d, <<k, v>>)

\* d[k] += c
DictAdd(d, k, c) == DictSet(d, k, DictGet(d, k) + c)

RECURSIVE SumSeq(_)
SumSeq(s) == IF s = <<>> THEN 0 ELSE Head(s) + SumSeq(Tail(s))

\* every enumeration order of a finite set (glob.glob returns files unordered)
RECURSIVE Orders(_)
Orders(S) ==
  IF S = {} THEN {<<>>}
  ELSE UNION {{<<x>> \o o : o \in Orders(S \ {x})} : x \in S}

\* the glob orders of the files of a directory that hold at least one entry:
\* a file without entries runs no iteration of the loop over its entries,
\* wherever it stands in the order
GlobOrders(parsed) == Orders({i \in DOMAIN parsed : parsed[i] # <<>>})

\* sorted(glob.glob(...)) of artifacts named by index
RECURSIVE SortedOrder(_)
SortedOrder(S) ==
  IF S = {} THEN <<>>
  ELSE LET m == CHOOSE x \in S : \A y \in S : x <= y
       IN <<m>> \o SortedOrder(S \ {m})

\* open(path, 'w'): the file holds exactly the text written
AppendFile(dir, i, text) ==
  (i :> ((IF i \in DOMAIN dir THEN dir[i] ELSE <<>>) \o text)) @@ dir

WriteFile(dir, i, text) == (i :> text) @@ dir

----------------------------------------------------------------------------
(* Inputs: the data directory *)

\* sample file contents: valid lines, a negative integer, a malformed line,
\* a line holding two tokens, a padded line
SampleFiles ==
  { << <<"3">>, <<"5">>, <<"3">> >>,
    << <<"-", "1">>, <<"x">>, <<"5">> >>,
    << <<"3", " ", "5">>, <<" ", "7", " ">> >> }

\* the scenario of the design document, one token per line
Scenario ==
  << << <<"3">>, <<"1">>, <<"3">>, <<"3">>, <<"2">> >>,
     << <<"1">>, <<"1">>, <<"2">>, <<"x">> >> >>

\* five files, eight distinct keys, ties between keys of different reducers
Wide ==
  << << <<"1">>, <<"5">>, <<"1">> >>,
     << <<"2">>, <<"6">> >>,
     << <<"3">>, <<"7">>, <<"3">> >>,
     << <<"4">>, <<"1", "0", "1">> >>,
     << <<"+", "4">>, <<"6">> >> >>

\* four files of valid non-negative integers, one of them empty, with keys of
\* both parities tied
Even ==
  << << <<"5">>, <<"3">> >>,
     << <<"7">>, <<"2">> >>,
     << <<"3">>, <<"5">>, <<"7">> >>,
     << >> >>

FileLists ==
  UNION {[1..n -> SampleFiles] : n \in 0..MaxFiles} \cup {Scenario, Wide, Even}

Variants == {"counter", "pipeline", "count_integers"}

NoTask ==
  [phase |-> "none", id |-> 0, exit |-> 0, rerun |-> FALSE,
   existed |-> FALSE, before |-> <<>>]

\* the record of an invocation of task (phase, id) that ended with exit code
\* code: whether the same task ran just before, and the text its artifact of
\* directory dir held when the task started
Invoked(phase, id, code, dir) ==
  [phase |-> phase, id |-> id, exit |-> code,
   rerun |-> (last.phase = phase /\ last.id = id),
   existed |-> id \in DOMAIN dir,
   before |-> IF id \in DOMAIN dir THEN dir[id] ELSE <<>>]

EmptyDir == [i \in {} |-> <<>>]

\* no task is in the middle of its run
NoneRunning == [map |-> EmptyDir, reduce |-> EmptyDir, overlap |-> {}]

NoReport == [written |-> FALSE, rows |-> <<>>]

----------------------------------------------------------------------------
(* mapreduce_counter.py *)

Mappers == 0..(NUM_MAPPERS - 1)

Reducers == 0..(NUM_REDUCERS - 1)

\* all_files[start_index:end_index] as the set of positions 1..len
BlockNoRemainder(n, mapper_id, M) ==
  LET files_per_mapper == n \div M
      start_index == mapper_id * files_per_mapper
  IN (start_index + 1)..(start_index + files_per_mapper)

BlockAssigned(n, mapper_id, M) ==
  LET files_per_mapper == n \div M
      start_index == mapper_id * files_per_mapper
      end_index == IF mapper_id = M - 1 THEN n ELSE start_index + files_per_mapper
  IN (start_index + 1)..end_index

\* the loop over the lines of one file: int(line.strip()), skip on ValueError
RECURSIVE CountLines(_, _)
CountLines(lines, local_counts) ==
  IF lines = <<>> THEN local_counts
  ELSE CountLines(Tail(lines),
                  IF PyIntOk(Strip(Head(lines)))
                  THEN DictAdd(local_counts, PyInt(Strip(Head(lines))), 1)
                  ELSE local_counts)

\* the loop over the assigned files, in list order
RECURSIVE CountFiles(_, _, _)
CountFiles(fs, positions, local_counts) ==
  IF positions = {} THEN local_counts
  ELSE LET p == CHOOSE x \in positions : \A y \in positions : x <= y
       IN CountFiles(fs, positions \ {p}, CountLines(fs[p], local_counts))

\* f.write(f"{number} {count}\n") for every item of the dict
FormatCounts(d) == [i \in 1..Len(d) |-> Str(d[i][1]) \o <<" ">> \o Str(d[i][2])]

\* line.strip().split() with two parts that both parse
PairLineOk(line) ==
  LET parts == Split(Strip(line))
  IN Len(parts) = 2 /\ PyIntOk(parts[1]) /\ PyIntOk(parts[2])

PairOf(line) ==
  LET parts == Split(Strip(line))
  IN <<PyInt(parts[1]), PyInt(parts[2])>>

\* the <<number, count>> pairs read from an artifact, line by line; a line
\* that does not parse is skipped
RECURSIVE ParseArtifact(_)
ParseArtifact(lines) ==
  IF lines = <<>> THEN <<>>
  ELSE IF PairLineOk(Head(lines))
       THEN <<PairOf(Head(lines))>> \o ParseArtifact(Tail(lines))
       ELSE ParseArtifact(Tail(lines))

RECURSIVE ReduceLinesKeepAll(_, _, _)
ReduceLinesKeepAll(pairs, reducer_id, final_counts) ==
  IF pairs = <<>> THEN final_counts
  ELSE ReduceLinesKeepAll(Tail(pairs), reducer_id,
         DictAdd(final_counts, Head(pairs)[1], Head(pairs)[2]))

\* the reducer's loop over the lines read from one mapper artifact
RECURSIVE ReduceLines(_, _, _)
ReduceLines(pairs, reducer_id, final_counts) ==
  IF pairs = <<>> THEN final_counts
  ELSE LET number == Head(pairs)[1]
           count == Head(pairs)[2]
       IN ReduceLines(Tail(pairs), reducer_id,
            IF PyMod(number, NUM_REDUCERS) = reducer_id
            THEN DictAdd(final_counts, number, count)
            ELSE final_counts)

\* the reducer's loop over the mapper artifacts, in glob order
RECURSIVE ReduceFiles(_, _, _, _)
ReduceFiles(parsed, order, reducer_id, final_counts) ==
  IF order = <<>> THEN final_counts
  ELSE ReduceFiles(parsed, Tail(order), reducer_id,
                   ReduceLines(parsed[Head(order)], reducer_id, final_counts))

\* the report's loop over the lines read from one reducer artifact
RECURSIVE MergeLines(_, _)
MergeLines(pairs, total_counts) ==
  IF pairs = <<>> THEN total_counts
  ELSE MergeLines(Tail(pairs),
                  DictSet(total_counts, Head(pairs)[1], Head(pairs)[2]))

RECURSIVE MergeFiles(_, _, _)
MergeFiles(parsed, order, total_counts) ==
  IF order = <<>> THEN total_counts
  ELSE MergeFiles(parsed, Tail(order), MergeLines(parsed[Head(order)], total_counts))

\* sorted(items, key=lambda item: item[1], reverse=True): a stable sort, items
\* of equal count keep their order
SortedByCountDesc(items) ==
  LET n == Len(items)
      rank(p) == Cardinality({q \in 1..n :
                    \/ items[q][2] > items[p][2]
                    \/ items[q][2] = items[p][2] /\ q < p})
  IN [r \in 1..n |-> items[CHOOSE p \in 1..n : rank(p) = r - 1]]

Min(a, b) == IF a <= b THEN a ELSE b

FirstK(s, k) == SubSeq(s, 1, Min(k, Len(s)))

run_mapper(mapper_id) ==
  /\ variant = "counter"
  /\ DOMAIN redArt = {}
  /\ LET assigned_files == BlockAssigned(Len(files), mapper_id, NUM_MAPPERS)
         local_counts == CountFiles(files, assigned_files, <<>>)
     IN /\ mapArt' = WriteFile(mapArt, mapper_id, FormatCounts(local_counts))
        /\ assigned' = (mapper_id :> assigned_files) @@ assigned
  /\ mapDone' = mapDone \cup {mapper_id}
  /\ last' = Invoked("map", mapper_id, 0, mapArt)
  /\ UNCHANGED <<running, variant, files, numTasks, redArt, report, redDone>>

run_reducer(reducer_id) ==
  /\ variant = "counter"
  /\ (DOMAIN mapArt = {} \/ mapDone = Mappers)
  /\ ~report.written
  /\ LET parsed == [i \in DOMAIN mapArt |-> ParseArtifact(mapArt[i])]
     IN \E order \in GlobOrders(parsed) :
          redArt' = WriteFile(redArt, reducer_id,
                      FormatCounts(ReduceFiles(parsed, order, reducer_id, <<>>)))
  /\ redDone' = IF mapDone = Mappers THEN redDone \cup {reducer_id} ELSE redDone
  /\ last' = Invoked("reduce", reducer_id, 0, redArt)
  /\ UNCHANGED <<running, variant, files, numTasks, mapArt, report, mapDone, assigned>>

run_report ==
  /\ variant = "counter"
  /\ (DOMAIN redArt = {} \/ redDone = Reducers)
  /\ IF DOMAIN redArt = {}
     THEN UNCHANGED report
     ELSE LET parsed == [i \in DOMAIN redArt |-> ParseArtifact(redArt[i])]
          IN \E order \in GlobOrders(parsed) :
               report' = [written |-> TRUE,
                          rows |-> FirstK(SortedByCountDesc(
                                     MergeFiles(parsed, order, <<>>)), TopK)]
  /\ last' = Invoked("report", 0, 0, EmptyDir)
  /\ UNCHANGED <<running, variant, files, numTasks, mapArt, redArt, mapDone,
                 redDone, assigned>>

CounterNext ==
  \/ \E i \in Mappers : run_mapper(i)
  \/ \E i \in Reducers : run_reducer(i)
  \/ run_report

----------------------------------------------------------------------------
(* map_reduce_pipeline.py *)

Tasks == 0..(numTasks - 1)

Buckets == 0..(NumBuckets - 1)

ZeroCounts == [v \in Buckets |-> 0]

\* files[i] with i % num_tasks == task_index, i counted from 0
RoundRobinAssigned(n, task_index, num_tasks) ==
  {p \in 1..n : PyMod(p - 1, num_tasks) = task_index}

\* line.split() of every line of a file, in order
RECURSIVE TokensOf(_)
TokensOf(lines) ==
  IF lines = <<>> THEN <<>> ELSE Split(Head(lines)) \o TokensOf(Tail(lines))

RECURSIVE TokensOfFiles(_, _)
TokensOfFiles(fs, positions) ==
  IF positions = {} THEN <<>>
  ELSE LET p == CHOOSE x \in positions : \A y \in positions : x <= y
       IN TokensOf(fs[p]) \o TokensOfFiles(fs, positions \ {p})

\* v = int(t); if 0 <= v <= 100: counts[v] += 1
RECURSIVE CountTokens(_, _)
CountTokens(tokens, counts) ==
  IF tokens = <<>> THEN counts
  ELSE LET v == PyInt(Head(tokens))
       IN CountTokens(Tail(tokens),
            IF 0 <= v /\ v <= NumBuckets - 1
            THEN [counts EXCEPT ![v] = @ + 1]
            ELSE counts)

\* json.dump of a list of ints: its elements as decimal text, in order
JsonDumpList(arr) == [i \in 1..NumBuckets |-> Str(arr[i - 1])]

\* json.load of that text: the list, indexed from 0
JsonLoadList(text) == [i \in 0..(Len(text) - 1) |-> PyInt(text[i + 1])]

\* for i, c in enumerate(arr): if i % num_tasks == task_index: partial[i] += int(c)
AddOwned(partial, arr, task_index, num_tasks) ==
  [i \in Buckets |->
     IF i \in DOMAIN arr /\ PyMod(i, num_tasks) = task_index
     THEN partial[i] + arr[i] ELSE partial[i]]

RECURSIVE ReduceParts(_, _, _, _, _)
ReduceParts(dir, mapper_parts, task_index, num_tasks, partial) ==
  IF mapper_parts = <<>> THEN partial
  ELSE ReduceParts(dir, Tail(mapper_parts), task_index, num_tasks,
         AddOwned(partial, JsonLoadList(dir[Head(mapper_parts)]),
                  task_index, num_tasks))

\* for i, c in enumerate(arr): final[i] += int(c)
AddAll(final, arr) ==
  [i \in Buckets |-> IF i \in DOMAIN arr THEN final[i] + arr[i] ELSE final[i]]

RECURSIVE SumParts(_, _, _)
SumParts(dir, reducer_parts, final) ==
  IF reducer_parts = <<>> THEN final
  ELSE SumParts(dir, Tail(reducer_parts),
                AddAll(final, JsonLoadList(dir[Head(reducer_parts)])))

\* the sort key (-count, key)
KeyBefore(a, b) == a[2] > b[2] \/ (a[2] = b[2] /\ a[1] < b[1])

\* pairs.sort(key=lambda x: (-x[1], x[0])): the keys are distinct, so the
\* pair at position r is the one with r - 1 pairs before it
SortPairs(pairs) ==
  LET n == Len(pairs)
      rank(p) == Cardinality({q \in 1..n : KeyBefore(pairs[q], pairs[p])})
  IN [r \in 1..n |-> pairs[CHOOSE p \in 1..n : rank(p) = r - 1]]

\* pairs = [(i, final[i]) for i in range(101)]
PairsOf(final) == [i \in 1..NumBuckets |-> <<i - 1, final[i - 1]>>]

\* some token of the assigned files makes int(t) raise ValueError
MapperRaises(tokens) == \E i \in 1..Len(tokens) : ~PyIntOk(tokens[i])

mapper(task_index) ==
  /\ variant = "pipeline"
  /\ redDone = {}
  /\ last.phase \in {"none", "map", "newrun"}
  /\ LET mine == RoundRobinAssigned(Len(files), task_index, numTasks)
         tokens == TokensOfFiles(files, mine)
     IN IF MapperRaises(tokens)
        THEN /\ last' = Invoked("map", task_index, 1, mapArt)
             /\ UNCHANGED <<mapArt, mapDone, assigned>>
        ELSE /\ mapArt' = WriteFile(mapArt, task_index,
                            JsonDumpList(CountTokens(tokens, ZeroCounts)))
             /\ mapDone' = mapDone \cup {task_index}
             /\ assigned' = (task_index :> mine) @@ assigned
             /\ last' = Invoked("map", task_index, 0, mapArt)
  /\ UNCHANGED <<running, variant, files, numTasks, redArt, report, redDone>>

reducer(task_index) ==
  /\ variant = "pipeline"
  /\ (DOMAIN mapArt = {} \/ mapDone = Tasks)
  /\ last.phase # "report"
  /\ redArt' = WriteFile(redArt, task_index,
                 JsonDumpList(ReduceParts(mapArt, SortedOrder(DOMAIN mapArt),
                                          task_index, numTasks, ZeroCounts)))
  /\ redDone' = IF mapDone = Tasks THEN redDone \cup {task_index} ELSE redDone
  /\ last' = Invoked("reduce", task_index, 0, redArt)
  /\ UNCHANGED <<running, variant, files, numTasks, mapArt, report, mapDone, assigned>>

pipeline_report ==
  /\ variant = "pipeline"
  /\ (DOMAIN redArt = {} \/ redDone = Tasks)
  /\ LET final == SumParts(redArt, SortedOrder(DOMAIN redArt), ZeroCounts)
         pairs == SubSeq(PairsOf(final), 1, NumBuckets)
         sorted == SortPairs(pairs)
     IN report' = [written |-> TRUE,
                   rows |-> [r \in 1..Min(TopK, NumBuckets) |-> sorted[r]]]
  /\ last' = Invoked("report", 0, 0, EmptyDir)
  /\ UNCHANGED <<running, variant, files, numTasks, mapArt, redArt, mapDone,
                 redDone, assigned>>

\* after a complete run the pipeline is invoked again on the same work
\* directory with a smaller --num-tasks
new_run ==
  /\ variant = "pipeline"
  /\ last.phase = "report"
  /\ redDone = Tasks
  /\ numTasks' \in 1..(numTasks - 1)
  /\ mapDone' = {}
  /\ redDone' = {}
  /\ assigned' = EmptyDir
  /\ last' = Invoked("newrun", 0, 0, EmptyDir)
  /\ UNCHANGED <<running, variant, files, mapArt, redArt, report>>

PipelineNext ==
  \/ \E t \in Tasks : mapper(t)
  \/ \E t \in Tasks : reducer(t)
  \/ pipeline_report
  \/ new_run

----------------------------------------------------------------------------
(* count_integers.py *)

InputFiles == 1..Len(files)

\* Counter(int(tok) for tok in tokens if tok.isdigit())
RECURSIVE CountDigitTokens(_, _)
CountDigitTokens(tokens, counts) ==
  IF tokens = <<>> THEN counts
  ELSE CountDigitTokens(Tail(tokens),
         IF IsDigitStr(Head(tokens))
         THEN DictAdd(counts, PyInt(Head(tokens)), 1)
         ELSE counts)

\* json.dump of a Counter: the keys become strings
JsonDumpDict(d) == [i \in 1..Len(d) |-> <<Str(d[i][1]), Str(d[i][2])>>]

\* {int(k): v for k, v in json.load(jf).items()}
JsonLoadDict(text) == [i \in 1..Len(text) |-> <<PyInt(text[i][1]), PyInt(text[i][2])>>]

\* total_counts.update(...): Counter.update adds the counts
RECURSIVE UpdateCounter(_, _)
UpdateCounter(total_counts, items) ==
  IF items = <<>> THEN total_counts
  ELSE UpdateCounter(DictAdd(total_counts, Head(items)[1], Head(items)[2]),
                     Tail(items))

RECURSIVE UpdateAll(_, _, _)
UpdateAll(loaded, order, total_counts) ==
  IF order = <<>> THEN total_counts
  ELSE UpdateAll(loaded, Tail(order),
                 UpdateCounter(total_counts, loaded[Head(order)]))

mapper_task(file_path) ==
  /\ variant = "count_integers"
  /\ last.phase \in {"none", "map"}
  /\ LET tokens == TokensOf(files[file_path])
         counts == CountDigitTokens(tokens, <<>>)
     IN mapArt' = WriteFile(mapArt, file_path, JsonDumpDict(counts))
  /\ mapDone' = mapDone \cup {file_path}
  /\ assigned' = (file_path :> {file_path}) @@ assigned
  /\ last' = Invoked("map", file_path, 0, mapArt)
  /\ UNCHANGED <<running, variant, files, numTasks, redArt, report, redDone>>

reducer_task ==
  /\ variant = "count_integers"
  /\ (DOMAIN mapArt = {} \/ mapDone = InputFiles)
  /\ IF DOMAIN mapArt = {}
     THEN /\ last' = Invoked("reduce", 0, 1, EmptyDir)
          /\ UNCHANGED <<report, redDone>>
     ELSE /\ LET loaded == [i \in DOMAIN mapArt |-> JsonLoadDict(mapArt[i])]
             IN \E order \in GlobOrders(loaded) :
                  report' = [written |-> TRUE,
                             rows |-> FirstK(SortedByCountDesc(
                                        UpdateAll(loaded, order, <<>>)), TopK)]
          /\ redDone' = {0}
          /\ last' = Invoked("reduce", 0, 0, EmptyDir)
  /\ UNCHANGED <<running, variant, files, numTasks, mapArt, redArt, mapDone, assigned>>

CountIntegersNext ==
  \/ \E f \in InputFiles : mapper_task(f)
  \/ reducer_task

----------------------------------------------------------------------------

Init ==
  /\ variant \in Variants
  /\ files \in FileLists
  /\ numTasks \in IF variant = "pipeline" THEN 1..MaxTasks ELSE {NUM_MAPPERS}
  /\ mapArt = EmptyDir
  /\ redArt = EmptyDir
  /\ report = NoReport
  /\ last = NoTask
  /\ mapDone = {}
  /\ redDone = {}
  /\ assigned = EmptyDir
  /\ running = NoneRunning

Next == CounterNext \/ PipelineNext \/ CountIntegersNext

Spec == Init /\ [][Next]_vars

----------------------------------------------------------------------------
(* What the artifacts hold, read the way the next phase reads them *)

\* the <<key, count>> entries of a list artifact: the buckets with a count
HasCount(entry) == entry[2] # 0

NonZeroEntries(arr) ==
  SelectSeq([i \in 1..NumBuckets |-> <<i - 1, IF i - 1 \in DOMAIN arr THEN arr[i - 1] ELSE 0>>],
            HasCount)

\* the entries of an artifact's text
TextEntries(text) ==
  IF variant = "counter" THEN ParseArtifact(text)
  ELSE IF variant = "pipeline" THEN NonZeroEntries(JsonLoadList(text))
  ELSE JsonLoadDict(text)

MapEntries(i) == TextEntries(mapArt[i])

RedEntries(i) == TextEntries(redArt[i])

KeysOf(entries) == {entries[i][1] : i \in 1..Len(entries)}

\* the count an artifact holds for key k, over all its entries
CountIn(entries, k) ==
  SumSeq([i \in 1..Len(entries) |-> IF entries[i][1] = k THEN entries[i][2] ELSE 0])

TotalIn(entries) == SumSeq([i \in 1..Len(entries) |-> entries[i][2]])

\* the task indices of the current run
RunMappers == IF variant = "counter" THEN Mappers ELSE Tasks

RunReducers == IF variant = "counter" THEN Reducers ELSE Tasks

MapKeys == UNION {KeysOf(MapEntries(i)) : i \in DOMAIN mapArt}

RedKeys == UNION {KeysOf(RedEntries(i)) : i \in RunReducers}

MapCount(k) ==
  LET order == SortedOrder(DOMAIN mapArt)
  IN SumSeq([j \in 1..Len(order) |-> CountIn(MapEntries(order[j]), k)])

RedCount(k) ==
  LET order == SortedOrder(RunReducers)
  IN SumSeq([j \in 1..Len(order) |-> CountIn(RedEntries(order[j]), k)])

\* every mapper of the run has completed, and then every reducer of the run
PipelineComplete ==
  /\ variant \in {"counter", "pipeline"}
  /\ mapDone = RunMappers
  /\ redDone = RunReducers

----------------------------------------------------------------------------
(* C1: once every mapper task and then every reducer task of a run has      *)
(* completed, the keys of the reducer artifacts are the keys of the mapper  *)
(* artifacts, and each key's count in the reducer artifacts is the sum of   *)
(* its counts over all mapper artifacts.                                    *)

C1_ReduceAggregates ==
  PipelineComplete =>
    /\ RedKeys = MapKeys
    /\ \A k \in MapKeys \cup RedKeys : RedCount(k) = MapCount(k)

\* a complete run in which some key comes from two different mapper artifacts
C1_Witness ==
  /\ PipelineComplete
  /\ variant = "counter"
  /\ \E i, j \in DOMAIN mapArt :
       /\ i # j
       /\ KeysOf(MapEntries(i)) \cap KeysOf(MapEntries(j)) # {}

----------------------------------------------------------------------------
(* C2: count conservation. After a complete Map phase and a complete Reduce *)
(* phase the total of the reducer artifacts' counts equals the total of the *)
(* mapper artifacts' counts, and both equal the number of valid base-10     *)
(* signed integer tokens of the input files, for run_mapper (a token is a   *)
(* line), mapper and mapper_task (a token is a whitespace-separated word).  *)

\* an optional sign followed by one or more decimal digits
SignedIntToken(t) ==
  LET b == IF t # <<>> /\ Head(t) \in {"+", "-"} THEN Tail(t) ELSE t
  IN b # <<>> /\ \A i \in 1..Len(b) : IsDigit(b[i])

RECURSIVE LinesOfFiles(_, _)
LinesOfFiles(fs, positions) ==
  IF positions = {} THEN <<>>
  ELSE LET p == CHOOSE x \in positions : \A y \in positions : x <= y
       IN [i \in 1..Len(fs[p]) |-> Strip(fs[p][i])] \o LinesOfFiles(fs, positions \ {p})

\* the tokens of the given input files, by the convention of the script
InputTokens(positions) ==
  IF variant = "counter" THEN LinesOfFiles(files, positions)
  ELSE TokensOfFiles(files, positions)

ValidTokens(positions) ==
  LET toks == InputTokens(positions)
  IN {i \in 1..Len(toks) : SignedIntToken(toks[i])}

MapTotal ==
  LET order == SortedOrder(DOMAIN mapArt)
  IN SumSeq([j \in 1..Len(order) |-> TotalIn(MapEntries(order[j]))])

RedTotal ==
  LET order == SortedOrder(RunReducers)
  IN SumSeq([j \in 1..Len(order) |-> TotalIn(RedEntries(order[j]))])

\* the work directory holds the artifacts of the current run and no other
FreshRun == DOMAIN mapArt = RunMappers /\ DOMAIN redArt = RunReducers

C2_CountConservation ==
  /\ (PipelineComplete /\ FreshRun) =>
       /\ RedTotal = MapTotal
       /\ MapTotal = Cardinality(ValidTokens(1..Len(files)))
  /\ (variant = "count_integers" /\ mapDone = InputFiles) =>
       MapTotal = Cardinality(ValidTokens(1..Len(files)))

----------------------------------------------------------------------------
(* C3: partition totality. For every sorted file list (the empty list and   *)
(* lists shorter than the task count included) and every task count M >= 1, *)
(* the file sets of tasks 0..M-1 are pairwise disjoint and their union is   *)
(* the whole list, for the block assignment of run_mapper and for the       *)
(* round-robin assignment of mapper.                                        *)

IsPartition(part, M, n) ==
  /\ \A i, j \in 0..(M - 1) : i # j => part[i] \cap part[j] = {}
  /\ UNION {part[i] : i \in 0..(M - 1)} = 1..n

C3_PartitionTotality ==
  /\ (variant \in {"counter", "pipeline"} /\ mapDone = RunMappers) =>
       /\ RunMappers \subseteq DOMAIN assigned
       /\ IsPartition(assigned, Cardinality(RunMappers), Len(files))
  /\ last = NoTask =>
       \A M \in 1..MaxCount : \A n \in {Len(files)} \cup 0..MaxListLen :
         /\ IsPartition([i \in 0..(M - 1) |-> BlockAssigned(n, i, M)], M, n)
         /\ IsPartition([i \in 0..(M - 1) |-> RoundRobinAssigned(n, i, M)], M, n)

\* every mapper of mapreduce_counter.py has run on a list whose length is no
\* multiple of the task count, so that the last task took the remainder
C3_Witness ==
  /\ variant = "counter"
  /\ mapDone = Mappers
  /\ Len(files) % NUM_MAPPERS # 0
  /\ Cardinality(assigned[NUM_MAPPERS - 1]) > Len(files) \div NUM_MAPPERS

----------------------------------------------------------------------------
(* C4: key ownership totality. For every reducer count R >= 1 and every     *)
(* integer key k, negative keys included, the keep test k % R = reducer_id  *)
(* is true for exactly one reducer_id in 0..R-1, namely                     *)
(* ((k mod R) + R) mod R; so every reducer artifact holds only keys it owns *)
(* and the key sets of two distinct reducer artifacts are disjoint.         *)

Owner(k, R) == TruncRem(TruncRem(k, R) + R, R)

\* the reducer artifacts written by the reducers of the current run
WrittenReducers == IF variant = "counter" THEN DOMAIN redArt ELSE redDone

ReducerCount == IF variant = "counter" THEN NUM_REDUCERS ELSE numTasks

C4_KeyOwnership ==
  /\ last = NoTask =>
       \A R \in 1..MaxCount : \A k \in (0 - MaxKey)..MaxKey :
         {id \in 0..(R - 1) : PyMod(k, R) = id} = {Owner(k, R)}
  /\ variant \in {"counter", "pipeline"} =>
       /\ \A i \in WrittenReducers : \A k \in KeysOf(RedEntries(i)) :
            Owner(k, ReducerCount) = i
       /\ \A i, j \in WrittenReducers :
            i # j => KeysOf(RedEntries(i)) \cap KeysOf(RedEntries(j)) = {}

\* a complete run of mapreduce_counter.py whose reducer artifacts hold a
\* negative key, and keys in two different artifacts
C4_Witness ==
  /\ variant = "counter"
  /\ PipelineComplete
  /\ \E i \in Reducers : \E k \in KeysOf(RedEntries(i)) : k < 0
  /\ \E i, j \in Reducers :
       i # j /\ RedEntries(i) # <<>> /\ RedEntries(j) # <<>>

----------------------------------------------------------------------------
(* C5: ranking determinism. The report lists (key, count) pairs by count    *)
(* descending with ties broken by key ascending, whatever the order in      *)
(* which the artifacts are enumerated and their lines appear.               *)

RowsRanked(rows) ==
  \A r \in 1..(Len(rows) - 1) : KeyBefore(rows[r], rows[r + 1])

C5_RankingDeterminism == report.written => RowsRanked(report.rows)

----------------------------------------------------------------------------
(* C6: partition consistency check. When the Reporter merges reducer        *)
(* artifacts and the same key occurs in two different reducer artifacts,    *)
(* the merge ends in a fatal consistency error.                             *)

DuplicateKey ==
  \E i, j \in DOMAIN redArt :
    i # j /\ KeysOf(RedEntries(i)) \cap KeysOf(RedEntries(j)) # {}

C6_PartitionConsistency ==
  (variant \in {"counter", "pipeline"} /\ last.phase = "report" /\ DuplicateKey)
    => last.exit # 0

----------------------------------------------------------------------------
(* C7: parse policy. A token that does not parse as a base-10 signed        *)
(* integer is skipped without error: the mapper task still runs to          *)
(* completion and writes its artifact with the counts of the valid tokens,  *)
(* for run_mapper and for mapper.                                           *)

AssignedTo(i) ==
  IF variant = "counter" THEN BlockAssigned(Len(files), i, NUM_MAPPERS)
  ELSE RoundRobinAssigned(Len(files), i, numTasks)

MalformedAssigned(i) ==
  LET toks == InputTokens(AssignedTo(i))
  IN \E t \in 1..Len(toks) : ~SignedIntToken(toks[t])

C7_ParsePolicy ==
  (/\ variant \in {"counter", "pipeline"}
   /\ last.phase = "map"
   /\ MalformedAssigned(last.id))
    => /\ last.exit = 0
       /\ last.id \in DOMAIN mapArt

----------------------------------------------------------------------------
(* C8: missing upstream artifacts. A Reduce task that finds no mapper       *)
(* artifact, and a Report task that finds no reducer artifact, end in a     *)
(* fatal error with exit code 2.                                            *)

C8_MissingUpstream ==
  (\/ last.phase = "reduce" /\ DOMAIN mapArt = {}
   \/ last.phase = "report" /\ DOMAIN redArt = {})
    => last.exit = 2

----------------------------------------------------------------------------
(* C9: report length. The report holds exactly min(K, distinctKeyCount)     *)
(* ranked entries, distinctKeyCount being the number of distinct keys of    *)
(* the input; with no input file it holds none, and no key with count 0 is  *)
(* ever listed.                                                             *)

DistinctKeys ==
  LET toks == InputTokens(1..Len(files))
  IN {PyInt(toks[i]) : i \in ValidTokens(1..Len(files))}

C9_ReportLength ==
  (PipelineComplete /\ FreshRun /\ last.phase = "report") =>
    /\ Len(report.rows) = Min(TopK, Cardinality(DistinctKeys))
    /\ \A r \in 1..Len(report.rows) : report.rows[r][2] > 0

----------------------------------------------------------------------------
(* C10: idempotence of re-runs. With unchanged inputs, invoking the same    *)
(* mapper or reducer task again right after itself leaves the task's        *)
(* artifact with the same key -> count content: each invocation replaces    *)
(* the artifact and adds nothing to the counts an earlier one left.         *)

SameContent(e1, e2) ==
  /\ KeysOf(e1) = KeysOf(e2)
  /\ \A k \in KeysOf(e1) : CountIn(e1, k) = CountIn(e2, k)

C10_Idempotence ==
  (/\ variant \in {"counter", "pipeline"}
   /\ last.phase \in {"map", "reduce"}
   /\ last.rerun
   /\ last.exit = 0)
    => /\ last.existed
       /\ SameContent(TextEntries(last.before),
                      IF last.phase = "map" THEN MapEntries(last.id)
                      ELSE RedEntries(last.id))

\* a reducer of mapreduce_counter.py was invoked twice in a row on mapper
\* artifacts that give it keys to keep
C10_Witness ==
  /\ variant = "counter"
  /\ last.phase = "reduce"
  /\ last.rerun
  /\ last.id \in DOMAIN redArt
  /\ redArt[last.id] # <<>>

----------------------------------------------------------------------------
(* The tasks of a phase running side by side, one process each. A process   *)
(* first computes the text of its artifact, then opens the artifact for     *)
(* writing, which empties it, then writes the text chunk by chunk, then     *)
(* closes the artifact and ends. The reducers start once every mapper of    *)
(* the run has ended with its artifact written.                             *)

\* a process that has not started: its position, the text it has yet to
\* write, the artifacts it has opened for writing
Idle == [pc |-> "idle", buf |-> <<>>, wrote |-> {}]

\* f"map_{mapper_id}.txt", f"reduce_{reducer_id}.txt", f"mapper_{task_index}.json",
\* f"reducer_{task_index}.json": the artifact is named by the task's index
SharedArtifact(id) == 0

ArtifactOf(id) == id

\* int(t) raises in the files of mapper id of map_reduce_pipeline.py
MapperCrashes(id) ==
  /\ variant = "pipeline"
  /\ MapperRaises(TokensOfFiles(files,
                                RoundRobinAssigned(Len(files), id, numTasks)))

\* the text mapper id writes
MapperText(id) ==
  IF variant = "counter"
  THEN FormatCounts(CountFiles(files,
                               BlockAssigned(Len(files), id, NUM_MAPPERS), <<>>))
  ELSE JsonDumpList(CountTokens(
         TokensOfFiles(files, RoundRobinAssigned(Len(files), id, numTasks)),
         ZeroCounts))

\* the texts reducer id can write from the mapper artifacts of directory dir:
\* one for every order in which glob lists them
ReducerTexts(dir, id) ==
  IF variant = "counter"
  THEN LET parsed == [i \in DOMAIN dir |-> ParseArtifact(dir[i])]
       IN {FormatCounts(ReduceFiles(parsed, order, id, <<>>)) :
             order \in GlobOrders(parsed)}
  ELSE {JsonDumpList(ReduceParts(dir, SortedOrder(DOMAIN dir), id, numTasks,
                                 ZeroCounts))}

\* the next piece handed to the file: one f.write of run_mapper and
\* run_reducer is one line, json.dump hands over the whole list
ChunkLen(buf) == IF variant = "counter" THEN 1 ELSE Len(buf)

\* the process has opened its artifact and not yet closed it
IsOpen(procs, id) == procs[id].pc = "open"

\* another task of the same phase has its artifact open
OthersOpen(procs, id) == \E j \in DOMAIN procs : j # id /\ IsOpen(procs, j)

OpenFile(dir, name) == WriteFile(dir, name, <<>>)

WriteChunk(dir, name, buf) ==
  [dir EXCEPT ![name] = @ \o SubSeq(buf, 1, ChunkLen(buf))]

AfterChunk(buf) == SubSeq(buf, ChunkLen(buf) + 1, Len(buf))

ConcInit ==
  /\ variant \in {"counter", "pipeline"}
  /\ files \in FileLists
  /\ numTasks \in IF variant = "pipeline" THEN 1..MaxTasks ELSE {NUM_MAPPERS}
  /\ mapArt = EmptyDir
  /\ redArt = EmptyDir
  /\ report = NoReport
  /\ last = NoTask
  /\ mapDone = {}
  /\ redDone = {}
  /\ assigned = EmptyDir
  /\ running = [map |-> [i \in RunMappers |-> Idle],
                reduce |-> [i \in RunReducers |-> Idle],
                overlap |-> {}]

\* the mapper reads its share of the input files and counts
mapper_count(id) ==
  /\ running.map[id].pc = "idle"
  /\ running' = [running EXCEPT !.map[id] =
                   IF MapperCrashes(id)
                   THEN [Idle EXCEPT !.pc = "failed"]
                   ELSE [Idle EXCEPT !.pc = "counted", !.buf = MapperText(id)]]
  /\ UNCHANGED <<variant, files, numTasks, mapArt, redArt, report, last,
                 mapDone, redDone, assigned>>

\* open(intermediate_filepath, 'w')
mapper_open(id) ==
  /\ running.map[id].pc = "counted"
  /\ mapArt' = OpenFile(mapArt, ArtifactOf(id))
  /\ running' = [running EXCEPT
                   !.map[id].pc = "open",
                   !.map[id].wrote = @ \cup {<<"map", ArtifactOf(id)>>},
                   !.overlap = IF OthersOpen(running.map, id)
                               THEN @ \cup {"map"} ELSE @]
  /\ UNCHANGED <<variant, files, numTasks, redArt, report, last,
                 mapDone, redDone, assigned>>

\* f.write(...)
mapper_write(id) ==
  /\ IsOpen(running.map, id)
  /\ running.map[id].buf # <<>>
  /\ mapArt' = WriteChunk(mapArt, ArtifactOf(id), running.map[id].buf)
  /\ running' = [running EXCEPT !.map[id].buf = AfterChunk(@)]
  /\ UNCHANGED <<variant, files, numTasks, redArt, report, last,
                 mapDone, redDone, assigned>>

\* the end of the with block: the artifact is closed and the task ends
mapper_close(id) ==
  /\ IsOpen(running.map, id)
  /\ running.map[id].buf = <<>>
  /\ running' = [running EXCEPT !.map[id].pc = "done"]
  /\ mapDone' = mapDone \cup {id}
  /\ UNCHANGED <<variant, files, numTasks, mapArt, redArt, report, last,
                 redDone, assigned>>

\* the reducer lists the mapper artifacts, reads them and sums its keys
reducer_read(id) ==
  /\ mapDone = RunMappers
  /\ running.reduce[id].pc = "idle"
  /\ \E text \in ReducerTexts(mapArt, id) :
       running' = [running EXCEPT !.reduce[id] =
                     [Idle EXCEPT !.pc = "counted", !.buf = text]]
  /\ UNCHANGED <<variant, files, numTasks, mapArt, redArt, report, last,
                 mapDone, redDone, assigned>>

\* open(output_filepath, 'w')
reducer_open(id) ==
  /\ running.reduce[id].pc = "counted"
  /\ redArt' = OpenFile(redArt, ArtifactOf(id))
  /\ running' = [running EXCEPT
                   !.reduce[id].pc = "open",
                   !.reduce[id].wrote = @ \cup {<<"reduce", ArtifactOf(id)>>},
                   !.overlap = IF OthersOpen(running.reduce, id)
                               THEN @ \cup {"reduce"} ELSE @]
  /\ UNCHANGED <<variant, files, numTasks, mapArt, report, last,
                 mapDone, redDone, assigned>>

reducer_write(id) ==
  /\ IsOpen(running.reduce, id)
  /\ running.reduce[id].buf # <<>>
  /\ redArt' = WriteChunk(redArt, ArtifactOf(id), running.reduce[id].buf)
  /\ running' = [running EXCEPT !.reduce[id].buf = AfterChunk(@)]
  /\ UNCHANGED <<variant, files, numTasks, mapArt, report, last,
                 mapDone, redDone, assigned>>

reducer_close(id) ==
  /\ IsOpen(running.reduce, id)
  /\ running.reduce[id].buf = <<>>
  /\ running' = [running EXCEPT !.reduce[id].pc = "done"]
  /\ redDone' = redDone \cup {id}
  /\ UNCHANGED <<variant, files, numTasks, mapArt, redArt, report, last,
                 mapDone, assigned>>

ConcNext ==
  \/ \E i \in RunMappers : mapper_count(i)
  \/ \E i \in RunMappers : mapper_open(i)
  \/ \E i \in RunMappers : mapper_write(i)
  \/ \E i \in RunMappers : mapper_close(i)
  \/ \E i \in RunReducers : reducer_read(i)
  \/ \E i \in RunReducers : reducer_open(i)
  \/ \E i \in RunReducers : reducer_write(i)
  \/ \E i \in RunReducers : reducer_close(i)

ConcSpec == ConcInit /\ [][ConcNext]_vars

----------------------------------------------------------------------------
(* C11: conflict-free concurrency. For any interleaving of the mapper tasks *)
(* with distinct indices, and then any interleaving of the reducer tasks    *)
(* with distinct indices, each task writes only the one artifact named by   *)
(* its own index, no reducer modifies a mapper artifact, and the final      *)
(* contents of all mapper and reducer artifacts are the same as when the    *)
(* tasks run one after another.                                             *)

\* the mapper artifacts left by the mappers run one after another
SeqMapArt == [i \in {j \in RunMappers : ~MapperCrashes(j)} |-> MapperText(i)]

\* every process of the phase has ended
AllEnded(procs) ==
  /\ DOMAIN procs # {}
  /\ \A i \in DOMAIN procs : procs[i].pc \in {"done", "failed"}

\* the artifacts a process has opened are its own and no other
OwnWrites(procs, kind) ==
  \A i \in DOMAIN procs :
    /\ procs[i].wrote \subseteq {<<kind, i>>}
    /\ procs[i].pc \in {"open", "done"} => procs[i].wrote = {<<kind, i>>}

C11_ConflictFree ==
  /\ OwnWrites(running.map, "map")
  /\ OwnWrites(running.reduce, "reduce")
  /\ AllEnded(running.map) => mapArt = SeqMapArt
  /\ AllEnded(running.reduce) =>
       /\ DOMAIN redArt = RunReducers
       /\ \A i \in RunReducers : redArt[i] \in ReducerTexts(SeqMapArt, i)

\* every task of mapreduce_counter.py has ended, in each phase two tasks had
\* their artifacts open at the same time, and two reducers wrote counts
C11_Witness ==
  /\ variant = "counter"
  /\ AllEnded(running.map)
  /\ AllEnded(running.reduce)
  /\ running.overlap = {"map", "reduce"}
  /\ \E i, j \in RunReducers : i # j /\ redArt[i] # <<>> /\ redArt[j] # <<>>
  /\ \E i, j \in RunMappers : i # j /\ mapArt[i] # <<>> /\ mapArt[j] # <<>>

----------------------------------------------------------------------------
(* C12: independence from earlier runs. In map_reduce_pipeline.py, after a  *)
(* complete run with task count N on a work directory, a second complete    *)
(* run (map for every index, then reduce for every index, then report) with *)
(* a smaller task count N' < N on the same work directory and unchanged     *)
(* input gives the same final counts and the same report as a run with N'   *)
(* on a fresh work directory: the artifacts mapper_i.json and               *)
(* reducer_i.json with i >= N' left by the first run do not contribute.     *)

\* the artifacts of a run with num_tasks tasks on a fresh work directory
FreshMapArt(num_tasks) ==
  [t \in 0..(num_tasks - 1) |->
     JsonDumpList(CountTokens(
       TokensOfFiles(files, RoundRobinAssigned(Len(files), t, num_tasks)),
       ZeroCounts))]

FreshRedArt(num_tasks) ==
  LET dir == FreshMapArt(num_tasks)
  IN [t \in 0..(num_tasks - 1) |->
        JsonDumpList(ReduceParts(dir, SortedOrder(DOMAIN dir), t, num_tasks,
                                 ZeroCounts))]

\* final of report, from the reducer artifacts of directory dir
FinalOf(dir) == SumParts(dir, SortedOrder(DOMAIN dir), ZeroCounts)

\* the rows report writes from final
RowsOf(final) ==
  LET sorted == SortPairs(SubSeq(PairsOf(final), 1, NumBuckets))
  IN [r \in 1..Min(TopK, NumBuckets) |-> sorted[r]]

\* the work directory holds artifacts of an earlier run with more tasks
StaleArtifacts ==
  \/ \E i \in DOMAIN mapArt : i >= numTasks
  \/ \E i \in DOMAIN redArt : i >= numTasks

C12_IndependentOfEarlierRuns ==
  (/\ variant = "pipeline"
   /\ PipelineComplete
   /\ last.phase = "report"
   /\ StaleArtifacts)
    => /\ \A v \in Buckets :
            FinalOf(redArt)[v] = FinalOf(FreshRedArt(numTasks))[v]
       /\ report.rows = RowsOf(FinalOf(FreshRedArt(numTasks)))

====
